---- MODULE Spec2Model ----
(***************************************************************************)
(* Model of the RMT review monitoring pipeline:                            *)
(*   tools/incremental_rmt_system.py  (RMTMonitoringDatabase,              *)
(*                                     IncrementalRMTMonitor, main)        *)
(*   tools/run_analysis_only.py       (AnalysisOnlyRunner)                 *)
(*   tools/rmt_review_extractor.py    (extraction ids)                     *)
(*                                                                         *)
(* Strings are sequences of tokens, so that f-string concatenation and     *)
(* str.split('_') are computed rather than assumed.  md5 is modelled as an *)
(* injective wrapping of its argument; hexdigest()[:8] as a different      *)
(* wrapping, so a 32-digit digest never equals an 8-digit prefix.          *)
(***************************************************************************)
EXTENDS Integers, Sequences, FiniteSets, TLC

\* ---------------------------------------------------------------- bounds
MaxTime == 1
MaxRuns == 2
MaxRmts == 1
MaxPending == 1

\* ------------------------------------------------------- program constants
BacklogLimit == 50
NoLimit == 0

\* ------------------------------------------------------------ input sets
ProfileIds == {<<"p1">>, <<"p2">>}
FirstNames == {"Jane", "Janie"}
\* The reviews the listing source serves: [place_id, text, author_name, time].
\* The second place id holds the substring 'id'.
Reviews ==
  {[place_id |-> <<"ChIJa">>, text |-> <<"a">>, author_name |-> <<"c">>, time |-> 0],
   [place_id |-> <<"ChIJ", "id">>, text |-> <<"a">>, author_name |-> <<"c">>, time |-> 0],
   [place_id |-> <<"ChIJa">>, text |-> <<"a">>, author_name |-> <<"b", "|", "c">>, time |-> 0],
   [place_id |-> <<"ChIJa">>, text |-> <<"a", "|", "b">>, author_name |-> <<"c">>, time |-> 0]}
ErrorTexts == {"", "boom"}
Limits == {NoLimit, 1}

None == "<None>"
NoTime == -1
NoRun == <<>>

\* ------------------------------------------------------- string helpers
RECURSIVE Split(_, _)
Split(s, sep) ==
  IF \E i \in 1..Len(s) : s[i] = sep
  THEN LET i == CHOOSE k \in 1..Len(s) : s[k] = sep /\ \A j \in 1..(k-1) : s[j] # sep
       IN  <<SubSeq(s, 1, i-1)>> \o Split(SubSeq(s, i+1, Len(s)), sep)
  ELSE <<s>>

Md5(s) == <<"md5(">> \o s \o <<")">>

Md5Prefix8(s) == <<"md5[:8](">> \o s \o <<")">>

SentinelTokens == {"N/A", "id", "review", "unknown", "placeholder", "prompt", "not", "provided"}

BadExtractionId(s) == s = <<>> \/ \E i \in 1..Len(s) : s[i] \in SentinelTokens

\* ------------------------------------------------------------- variables
VARIABLES
  clock,                 \* int(time.time())
  monitoring_runs,       \* table monitoring_runs, in rowid order
  rmt_profiles,          \* table rmt_profiles, in rowid order
  ai_analyses,           \* table ai_analyses, in rowid order
  leaderboard_snapshots, \* table leaderboard_snapshots, in rowid order
  pc,                    \* position of the single caller
  run_id,                \* run_id local of the running function
  stats,                 \* stats dict of the running function
  processed_rmts,        \* processed_rmts set of run_full_analysis
  pending,               \* extractions of the current profile not yet saved
  all_extractions,       \* all_extractions / new_extractions: the part not yet analyzed
  unanalyzed,            \* unanalyzed: the part the loop has not yet reached
  tally,                 \* successful / failed / len(unanalyzed) of run_analysis
  call,                  \* the entry point that was invoked last
  outcome,               \* how the last invocation ended
  last_op,               \* the last database operation and its result
  invocation,            \* arguments of the pure function under call
  returned               \* its return value

vars == <<clock, monitoring_runs, rmt_profiles, ai_analyses, leaderboard_snapshots,
          pc, run_id, stats, processed_rmts, pending, all_extractions, unanalyzed,
          tally, call, outcome, last_op, invocation, returned>>

pure == <<invocation, returned>>

tables == <<monitoring_runs, rmt_profiles, ai_analyses, leaderboard_snapshots>>

locals == <<run_id, stats, processed_rmts, pending, all_extractions, unanalyzed, tally>>

\* --------------------------------------------------------- table lookups
RunIds == {monitoring_runs[i].run_id : i \in 1..Len(monitoring_runs)}

RunRow(id) == monitoring_runs[CHOOSE i \in 1..Len(monitoring_runs) : monitoring_runs[i].run_id = id]

ProfileRows(pid) == {i \in 1..Len(rmt_profiles) : rmt_profiles[i].profile_id = pid}

ProfileRow(pid) == rmt_profiles[CHOOSE i \in ProfileRows(pid) : TRUE]

AnalysisIds == {ai_analyses[i].analysis_id : i \in 1..Len(ai_analyses)}

SnapshotIds == {leaderboard_snapshots[i].snapshot_id : i \in 1..Len(leaderboard_snapshots)}

ZeroTally == [successful |-> 0, failed |-> 0, total |-> 0]

ZeroStats == [rmts_processed |-> 0, reviews_extracted |-> 0, reviews_analyzed |-> 0]

NoCall == [op |-> "none", mode |-> "none", had_completed |-> FALSE]

NoOutcome == [kind |-> "none", run_id |-> NoRun, error |-> None]

NoSubject == [extraction_id |-> <<>>, profile_id |-> <<>>, review_text |-> <<>>,
              review_author |-> <<>>, place_id |-> <<>>, matched_text_segments |-> <<>>]

NoOp == [op |-> "none", ret |-> FALSE, subject |-> NoSubject]

\* ------------------------------------------- RMTReviewExtractor (extraction)
\* extraction_id = f"{profile_id}_{place_id}_{md5(review_text)[:8]}"
ExtractionId(pid, place, text) == pid \o <<"_">> \o place \o <<"_">> \o Md5Prefix8(text)

\* One ReviewExtraction; it is built only when name_matches is non-empty, so
\* matched_text_segments is never the empty list.
MakeExtraction(pid, place, text, author, time) ==
  [extraction_id |-> ExtractionId(pid, place, text),
   profile_id |-> pid,
   place_id |-> place,
   text |-> text,
   author_name |-> author,
   time |-> time,
   matched_text_segments |-> <<"match">>]

ReviewExtractions(pid) ==
  {MakeExtraction(pid, r.place_id, r.text, r.author_name, r.time) : r \in Reviews}

\* The lists extract_review_data can return for one professional.
ExtractReviewData(pid) ==
  UNION {[1..n -> ReviewExtractions(pid)] : n \in 0..MaxPending}

\* ------------------------------------------------- RMTMonitoringDatabase
NewRunId(run_type) == <<run_type, "_", ToString(clock)>>

NewRunRow(id, run_type) ==
  [run_id |-> id, run_type |-> run_type, started_at |-> clock, completed_at |-> NoTime,
   rmts_processed |-> 0, reviews_extracted |-> 0, reviews_analyzed |-> 0,
   status |-> "running", error_message |-> None]

\* start_monitoring_run: run_id is the PRIMARY KEY, so a second INSERT of the
\* same id raises sqlite3.IntegrityError and adds no row.
StartMonitoringRun(run_type) ==
  LET id == NewRunId(run_type) IN
  IF id \in RunIds
  THEN [raised |-> TRUE, run_id |-> id, rows |-> monitoring_runs]
  ELSE [raised |-> FALSE, run_id |-> id,
        rows |-> Append(monitoring_runs, NewRunRow(id, run_type))]

\* Defect variant: any error text, the empty one included, marks the run failed.
CompletionStatusNotNone(error) == IF error # None THEN "failed" ELSE "completed"

\* status = 'failed' if error else 'completed'  (None and '' are both falsy)
CompletionStatus(error) == IF error # None /\ error # "" THEN "failed" ELSE "completed"

CompleteMonitoringRun(id, st, error) ==
  [i \in 1..Len(monitoring_runs) |->
     IF monitoring_runs[i].run_id = id
     THEN [monitoring_runs[i] EXCEPT
             !.completed_at = clock,
             !.rmts_processed = st.rmts_processed,
             !.reviews_extracted = st.reviews_extracted,
             !.reviews_analyzed = st.reviews_analyzed,
             !.status = CompletionStatus(error),
             !.error_message = error]
     ELSE monitoring_runs[i]]

\* get_last_successful_run() with run_type=None: is there a 'completed' row
HasSuccessfulRun == \E i \in 1..Len(monitoring_runs) : monitoring_runs[i].status = "completed"

\* Defect variant: the row is written anew on every save (INSERT OR REPLACE),
\* which resets the columns the statement does not name.
SaveRmtProfileReplacing(rmt_data, rid) ==
  IF ProfileRows(rmt_data.profile_id) # {}
  THEN [i \in 1..Len(rmt_profiles) |->
          IF rmt_profiles[i].profile_id = rmt_data.profile_id
          THEN [rmt_profiles[i] EXCEPT !.first_name = rmt_data.first_name,
                                       !.registration_status = rmt_data.registration_status,
                                       !.practice_locations = rmt_data.practice_locations,
                                       !.reviews_data = <<>>,
                                       !.total_reviews = 0,
                                       !.last_updated_run_id = rid]
          ELSE rmt_profiles[i]]
  ELSE Append(rmt_profiles,
         [profile_id |-> rmt_data.profile_id, first_name |-> rmt_data.first_name,
          registration_status |-> rmt_data.registration_status,
          practice_locations |-> rmt_data.practice_locations,
          reviews_data |-> <<>>, total_reviews |-> 0, last_review_date |-> NoTime,
          first_seen_run_id |-> rid, last_updated_run_id |-> rid])

\* Defect variant: the UPDATE also rewrites first_seen_run_id.
SaveRmtProfileReseen(rmt_data, rid) ==
  IF ProfileRows(rmt_data.profile_id) # {}
  THEN [i \in 1..Len(rmt_profiles) |->
          IF rmt_profiles[i].profile_id = rmt_data.profile_id
          THEN [rmt_profiles[i] EXCEPT !.first_name = rmt_data.first_name,
                                       !.registration_status = rmt_data.registration_status,
                                       !.practice_locations = rmt_data.practice_locations,
                                       !.first_seen_run_id = rid,
                                       !.last_updated_run_id = rid]
          ELSE rmt_profiles[i]]
  ELSE Append(rmt_profiles,
         [profile_id |-> rmt_data.profile_id, first_name |-> rmt_data.first_name,
          registration_status |-> rmt_data.registration_status,
          practice_locations |-> rmt_data.practice_locations,
          reviews_data |-> <<>>, total_reviews |-> 0, last_review_date |-> NoTime,
          first_seen_run_id |-> rid, last_updated_run_id |-> rid])

\* save_rmt_profile: UPDATE of the mutable columns, or INSERT of a new row whose
\* reviews_data is NULL (written <<>>: '[]' is never stored) and total_reviews 0.
SaveRmtProfile(rmt_data, rid) ==
  IF ProfileRows(rmt_data.profile_id) # {}
  THEN [i \in 1..Len(rmt_profiles) |->
          IF rmt_profiles[i].profile_id = rmt_data.profile_id
          THEN [rmt_profiles[i] EXCEPT !.first_name = rmt_data.first_name,
                                       !.registration_status = rmt_data.registration_status,
                                       !.practice_locations = rmt_data.practice_locations,
                                       !.last_updated_run_id = rid]
          ELSE rmt_profiles[i]]
  ELSE Append(rmt_profiles,
         [profile_id |-> rmt_data.profile_id, first_name |-> rmt_data.first_name,
          registration_status |-> rmt_data.registration_status,
          practice_locations |-> rmt_data.practice_locations,
          reviews_data |-> <<>>, total_reviews |-> 0, last_review_date |-> NoTime,
          first_seen_run_id |-> rid, last_updated_run_id |-> rid])

\* review_content = f"{text}|{author_name}|{time}"
ReviewContent(e) == e.text \o <<"|">> \o e.author_name \o <<"|">> \o <<ToString(e.time)>>

ReviewHash(e) == Md5(ReviewContent(e))

ExistingReviews(pid) == IF ProfileRows(pid) # {} THEN ProfileRow(pid).reviews_data ELSE <<>>

ExistingTotal(pid) == IF ProfileRows(pid) # {} THEN ProfileRow(pid).total_reviews ELSE 0

\* Defect variant: the check looks for the 8-digit text hash of the extraction id.
ReviewAlreadyExistsByShortHash(e) ==
  \E i \in 1..Len(ExistingReviews(e.profile_id)) :
     ExistingReviews(e.profile_id)[i].review_hash = Md5Prefix8(e.text)

ReviewAlreadyExists(e) ==
  \E i \in 1..Len(ExistingReviews(e.profile_id)) :
     ExistingReviews(e.profile_id)[i].review_hash = ReviewHash(e)

NewReview(e, rid) ==
  [review_hash |-> ReviewHash(e),
   extraction_id |-> e.extraction_id,
   place_id |-> e.place_id,
   review_text |-> e.text,
   review_author |-> e.author_name,
   review_timestamp |-> e.time,
   matched_text_segments |-> e.matched_text_segments,
   extracted_at |-> clock,
   extraction_run_id |-> rid]

\* Defect variant: total_reviews is incremented before the duplicate check.
SaveReviewExtractionCountingDuplicates(e, rid) ==
  [ret |-> ~ReviewAlreadyExists(e),
   rows |-> [i \in 1..Len(rmt_profiles) |->
               IF rmt_profiles[i].profile_id = e.profile_id
               THEN [rmt_profiles[i] EXCEPT
                       !.reviews_data = IF ReviewAlreadyExists(e) THEN @
                                        ELSE Append(@, NewReview(e, rid)),
                       !.total_reviews = @ + 1,
                       !.last_review_date = IF ReviewAlreadyExists(e) THEN @ ELSE clock,
                       !.last_updated_run_id = IF ReviewAlreadyExists(e) THEN @ ELSE rid]
               ELSE rmt_profiles[i]]]

\* Defect variant: the bookkeeping columns are written before the duplicate check.
SaveReviewExtractionTouching(e, rid) ==
  [ret |-> ~ReviewAlreadyExists(e),
   rows |-> [i \in 1..Len(rmt_profiles) |->
               IF rmt_profiles[i].profile_id = e.profile_id
               THEN [rmt_profiles[i] EXCEPT
                       !.reviews_data = IF ReviewAlreadyExists(e) THEN @
                                        ELSE Append(@, NewReview(e, rid)),
                       !.total_reviews = IF ReviewAlreadyExists(e) THEN @ ELSE @ + 1,
                       !.last_review_date = clock,
                       !.last_updated_run_id = rid]
               ELSE rmt_profiles[i]]]

\* save_review_extraction: [ret, rows].  The UPDATE ... WHERE profile_id = ?
\* touches no row when the professional has no row.
SaveReviewExtraction(e, rid) ==
  IF ReviewAlreadyExists(e)
  THEN [ret |-> FALSE, rows |-> rmt_profiles]
  ELSE [ret |-> TRUE,
        rows |-> [i \in 1..Len(rmt_profiles) |->
                    IF rmt_profiles[i].profile_id = e.profile_id
                    THEN [rmt_profiles[i] EXCEPT
                            !.reviews_data = Append(ExistingReviews(e.profile_id), NewReview(e, rid)),
                            !.total_reviews = ExistingTotal(e.profile_id) + 1,
                            !.last_review_date = clock,
                            !.last_updated_run_id = rid]
                    ELSE rmt_profiles[i]]]

\* save_ai_analysis: profile_id = parts[0], review_hash = parts[-1] of
\* analysis.extraction_id.split('_'); fewer than 3 parts: logged, nothing saved.
\* analysis_id is the PRIMARY KEY: a second INSERT of it raises IntegrityError.
AnalysisParts(analysis) == Split(analysis.extraction_id, "_")

AnalysisRow(aid, pid, rid, hash) ==
  [analysis_id |-> aid, profile_id |-> pid, analysis_run_id |-> rid, review_hash |-> hash]

SaveAiAnalysis(analysis, rid) ==
  LET parts == AnalysisParts(analysis)
      aid == <<"analysis", "_">> \o analysis.extraction_id \o <<"_", ToString(clock)>>
  IN  IF Len(parts) < 3
      THEN [raised |-> FALSE, saved |-> FALSE, rows |-> ai_analyses]
      ELSE IF aid \in AnalysisIds
      THEN [raised |-> TRUE, saved |-> FALSE, rows |-> ai_analyses]
      ELSE [raised |-> FALSE, saved |-> TRUE,
            rows |-> Append(ai_analyses, AnalysisRow(aid, parts[1], rid, parts[Len(parts)]))]

\* get_unanalyzed_extractions
AnalyzedHashes(pid) ==
  {ai_analyses[i].review_hash : i \in {j \in 1..Len(ai_analyses) : ai_analyses[j].profile_id = pid}}

ExtractionData(pid, review) ==
  [extraction_id |-> review.extraction_id,
   profile_id |-> pid,
   review_text |-> review.review_text,
   review_author |-> review.review_author,
   place_id |-> review.place_id,
   matched_text_segments |-> review.matched_text_segments]

\* Defect variant: a professional with any analysis row counts as analyzed.
IsUnanalyzedPerProfile(pid, review) == AnalyzedHashes(pid) = {}

IsUnanalyzed(pid, review) == review.review_hash \notin AnalyzedHashes(pid)

RECURSIVE UnanalyzedOf(_, _)
UnanalyzedOf(pid, reviews) ==
  IF reviews = <<>> THEN <<>>
  ELSE (IF IsUnanalyzed(pid, Head(reviews)) THEN <<ExtractionData(pid, Head(reviews))>> ELSE <<>>)
       \o UnanalyzedOf(pid, Tail(reviews))

HasReviewsData(row) == row.reviews_data # <<>>

LimitRows(rows, limit) == IF limit # 0 /\ Len(rows) > limit THEN SubSeq(rows, 1, limit) ELSE rows

RECURSIVE UnanalyzedOfRows(_)
UnanalyzedOfRows(rows) ==
  IF rows = <<>> THEN <<>>
  ELSE UnanalyzedOf(Head(rows).profile_id, Head(rows).reviews_data) \o UnanalyzedOfRows(Tail(rows))

GetUnanalyzedExtractions(limit) ==
  UnanalyzedOfRows(LimitRows(SelectSeq(rmt_profiles, HasReviewsData), limit))

\* ---------------------------------------------------- AnalysisOnlyRunner
\* get_unanalyzed_reviews: rmt_profiles LEFT JOIN ai_analyses yields one joined
\* row per analysis row of the professional (one row when there is none); LIMIT
\* cuts the joined rows; every joined row lists the professional's reviews that
\* have no analysis row with (profile_id, review_hash).
AnalysesOf(pid) == SelectSeq(ai_analyses, LAMBDA a : a.profile_id = pid)

RECURSIVE Repeat(_, _)
Repeat(x, n) == IF n = 0 THEN <<>> ELSE <<x>> \o Repeat(x, n - 1)

RECURSIVE JoinedRows(_)
JoinedRows(rows) ==
  IF rows = <<>> THEN <<>>
  ELSE (IF Len(AnalysesOf(Head(rows).profile_id)) = 0
        THEN <<Head(rows)>>
        ELSE Repeat(Head(rows), Len(AnalysesOf(Head(rows).profile_id))))
       \o JoinedRows(Tail(rows))

\* A stored extraction_id holding one of the sentinel substrings is rebuilt as
\* f"{profile_id}_{place_id}_{review_hash}".
WellFormedId(pid, review) ==
  IF BadExtractionId(review.extraction_id)
  THEN pid \o <<"_">> \o review.place_id \o <<"_">> \o review.review_hash
  ELSE review.extraction_id

AnalysisData(pid, review) ==
  [ExtractionData(pid, review) EXCEPT !.extraction_id = WellFormedId(pid, review)]

RECURSIVE UnanalyzedReviewsOf(_, _)
UnanalyzedReviewsOf(pid, reviews) ==
  IF reviews = <<>> THEN <<>>
  ELSE (IF IsUnanalyzed(pid, Head(reviews)) THEN <<AnalysisData(pid, Head(reviews))>> ELSE <<>>)
       \o UnanalyzedReviewsOf(pid, Tail(reviews))

RECURSIVE UnanalyzedReviewsOfRows(_)
UnanalyzedReviewsOfRows(rows) ==
  IF rows = <<>> THEN <<>>
  ELSE UnanalyzedReviewsOf(Head(rows).profile_id, Head(rows).reviews_data)
       \o UnanalyzedReviewsOfRows(Tail(rows))

GetUnanalyzedReviews(limit) ==
  UnanalyzedReviewsOfRows(LimitRows(JoinedRows(SelectSeq(rmt_profiles, HasReviewsData)), limit))

\* save_analysis: a bad extraction_id is logged and skipped; otherwise
\* analysis_id = f"analysis_{profile_id}_{int(time.time())}" is inserted.
SaveAnalysis(analysis, rid) ==
  LET parts == AnalysisParts(analysis)
      aid == <<"analysis", "_">> \o parts[1] \o <<"_", ToString(clock)>>
  IN  IF BadExtractionId(analysis.extraction_id)
      THEN [raised |-> FALSE, saved |-> FALSE, rows |-> ai_analyses]
      ELSE IF aid \in AnalysisIds
      THEN [raised |-> TRUE, saved |-> FALSE, rows |-> ai_analyses]
      ELSE [raised |-> FALSE, saved |-> TRUE,
            rows |-> Append(ai_analyses, AnalysisRow(aid, parts[1], rid, parts[Len(parts)]))]

AnalysisOnlyStatus(failed) == IF failed = 0 THEN "completed" ELSE "completed_with_errors"

UpdateMonitoringRun(id, reviews_analyzed, successful, failed) ==
  [i \in 1..Len(monitoring_runs) |->
     IF monitoring_runs[i].run_id = id
     THEN [monitoring_runs[i] EXCEPT
             !.completed_at = clock,
             !.reviews_analyzed = reviews_analyzed,
             !.status = AnalysisOnlyStatus(failed),
             !.error_message = IF failed > 0 THEN "Analysis complete" ELSE None]
     ELSE monitoring_runs[i]]

\* ------------------------------------------------- GeminiReviewAnalyzer
\* analyze_single_review: None on any failure, else the model's answer; its
\* extraction_id is whatever the external model wrote (the prompt does not
\* carry the id): the id of the extraction asked about, or something else.
NoAnalysis == [present |-> FALSE, extraction_id |-> <<>>]

AnalyzeSingleReview(extraction_data) ==
  {NoAnalysis,
   [present |-> TRUE, extraction_id |-> extraction_data.extraction_id],
   [present |-> TRUE, extraction_id |-> <<"unknown">>]}

\* ------------------------------------------------ IncrementalRMTMonitor
ExtractionToDict(e) ==
  [extraction_id |-> e.extraction_id,
   profile_id |-> e.profile_id,
   review_text |-> e.text,
   review_author |-> e.author_name,
   place_id |-> e.place_id,
   matched_text_segments |-> e.matched_text_segments]

\* _db_extraction_to_dict: json.loads(matched_text_segments or '[]') is handed
\* the already decoded list; json.loads raises TypeError on a non-empty list.
DbExtractionToDictRaises(extraction_data) == extraction_data.matched_text_segments # <<>>

\* One record of a search_cmto_profiles result.  A later fetch of a professional
\* differs from the earlier one in name, status and practice locations together.
Fetch(pid, name) ==
  [profile_id |-> pid,
   first_name |-> name,
   registration_status |-> IF name = "Jane" THEN "Active" ELSE "Inactive",
   practice_locations |-> IF name = "Jane" THEN <<"Toronto">> ELSE <<>>]

RmtData == {Fetch(pid, name) : pid \in ProfileIds, name \in FirstNames}

CurrentRunType == RunRow(run_id).run_type

ProfilesWithAnalyses ==
  SelectSeq(rmt_profiles, LAMBDA rp : Len(AnalysesOf(rp.profile_id)) > 0)

SnapshotId(pid) == <<"snapshot", "_">> \o pid \o <<"_", ToString(clock)>>

SnapshotRow(rp, rid) ==
  [snapshot_id |-> SnapshotId(rp.profile_id), run_id |-> rid, profile_id |-> rp.profile_id,
   total_reviews_analyzed |-> Len(AnalysesOf(rp.profile_id))]

\* _generate_leaderboard_snapshot: one transaction; a snapshot_id that exists
\* already raises IntegrityError and the whole block is rolled back.
GenerateLeaderboardSnapshot(rid) ==
  LET new == [i \in 1..Len(ProfilesWithAnalyses) |-> SnapshotRow(ProfilesWithAnalyses[i], rid)]
  IN  IF \E i \in 1..Len(new) : new[i].snapshot_id \in SnapshotIds
      THEN [raised |-> TRUE, rows |-> leaderboard_snapshots]
      ELSE [raised |-> FALSE, rows |-> leaderboard_snapshots \o new]

\* ------------------------------------------------------------ the steps
PipelineInit ==
  /\ clock = 0
  /\ monitoring_runs = <<>>
  /\ rmt_profiles = <<>>
  /\ ai_analyses = <<>>
  /\ leaderboard_snapshots = <<>>
  /\ pc = "idle"
  /\ run_id = NoRun
  /\ stats = ZeroStats
  /\ processed_rmts = {}
  /\ pending = <<>>
  /\ all_extractions = <<>>
  /\ unanalyzed = <<>>
  /\ tally = ZeroTally
  /\ call = NoCall
  /\ outcome = NoOutcome
  /\ last_op = NoOp

\* No pure function is under call while the pipeline runs.
NoInvocation == [op |-> "none"]

NoReturn == <<>>

Init ==
  /\ PipelineInit
  /\ invocation = NoInvocation
  /\ returned = NoReturn

ResetLocals ==
  /\ run_id' = NoRun
  /\ stats' = ZeroStats
  /\ processed_rmts' = {}
  /\ pending' = <<>>
  /\ all_extractions' = <<>>
  /\ unanalyzed' = <<>>
  /\ tally' = ZeroTally

Outcome(kind, id, error) == [kind |-> kind, run_id |-> id, error |-> error]

\* The function starts its run before its try block: an IntegrityError of
\* start_monitoring_run escapes with no run started.
BeginRun(run_type) ==
  LET s == StartMonitoringRun(run_type) IN
  /\ monitoring_runs' = s.rows
  /\ last_op' = [op |-> "start_monitoring_run", ret |-> ~s.raised, subject |-> NoSubject]
  /\ UNCHANGED <<clock, rmt_profiles, ai_analyses, leaderboard_snapshots>>
  /\ IF s.raised
     THEN /\ pc' = "idle"
          /\ outcome' = Outcome("raised", NoRun, "IntegrityError")
          /\ ResetLocals
     ELSE /\ pc' = "extract"
          /\ outcome' = Outcome("running", s.run_id, None)
          /\ run_id' = s.run_id
          /\ stats' = ZeroStats
          /\ UNCHANGED <<processed_rmts, pending, all_extractions, unanalyzed, tally>>

\* main(): --mode=full and --mode=rebuild both call run_full_analysis
RunFullAnalysis(mode) ==
  /\ pc = "idle"
  /\ Len(monitoring_runs) < MaxRuns
  /\ call' = [op |-> "run_full_analysis", mode |-> mode, had_completed |-> HasSuccessfulRun]
  /\ BeginRun("full")
  /\ UNCHANGED pure

\* Defect variant: the fallback to a full run is missing.
AlwaysIncrementalRunType == "incremental"

\* run_incremental_update: without a 'completed' run it is run_full_analysis
IncrementalRunType == IF HasSuccessfulRun THEN "incremental" ELSE "full"

RunIncrementalUpdate ==
  /\ pc = "idle"
  /\ Len(monitoring_runs) < MaxRuns
  /\ call' = [op |-> "run_incremental_update", mode |-> "incremental",
              had_completed |-> HasSuccessfulRun]
  /\ BeginRun(IncrementalRunType)
  /\ UNCHANGED pure

\* One professional of a search result: save_rmt_profile, then
\* extract_review_data.  run_full_analysis skips a professional it has seen.
ProcessProfile(rmt_data, extractions) ==
  /\ pc = "extract"
  /\ pending = <<>>
  /\ stats.rmts_processed < MaxRmts
  /\ CurrentRunType = "full" => rmt_data.profile_id \notin processed_rmts
  /\ rmt_profiles' = SaveRmtProfile(rmt_data, run_id)
  /\ processed_rmts' = IF CurrentRunType = "full"
                       THEN processed_rmts \cup {rmt_data.profile_id}
                       ELSE processed_rmts
  /\ stats' = [stats EXCEPT !.rmts_processed = @ + 1]
  /\ pending' = extractions
  /\ last_op' = [op |-> "save_rmt_profile", ret |-> TRUE,
                 subject |-> [NoSubject EXCEPT !.profile_id = rmt_data.profile_id]]
  /\ UNCHANGED <<clock, monitoring_runs, ai_analyses, leaderboard_snapshots, pc, run_id,
                 all_extractions, unanalyzed, tally, call, outcome>>
  /\ UNCHANGED pure

SaveExtraction ==
  /\ pc = "extract"
  /\ pending # <<>>
  /\ LET e == Head(pending)
         r == SaveReviewExtraction(e, run_id)
     IN  /\ rmt_profiles' = r.rows
         /\ all_extractions' = IF r.ret THEN Append(all_extractions, e) ELSE all_extractions
         /\ stats' = IF r.ret THEN [stats EXCEPT !.reviews_extracted = @ + 1] ELSE stats
         /\ last_op' = [op |-> "save_review_extraction", ret |-> r.ret,
                        subject |-> ExtractionToDict(e)]
  /\ pending' = Tail(pending)
  /\ UNCHANGED <<clock, monitoring_runs, ai_analyses, leaderboard_snapshots, pc, run_id,
                 processed_rmts, unanalyzed, tally, call, outcome>>
  /\ UNCHANGED pure

FinishExtraction ==
  /\ pc = "extract"
  /\ pending = <<>>
  /\ pc' = "analyze"
  /\ UNCHANGED <<clock, tables, locals, call, outcome, last_op>>
  /\ UNCHANGED pure

\* An exception reaching the except clause of the running function:
\* complete_monitoring_run(run_id, stats, str(e)); raise
ExceptionEscapes(error) ==
  /\ monitoring_runs' = CompleteMonitoringRun(run_id, stats, error)
  /\ outcome' = Outcome("raised", run_id, error)
  /\ pc' = "idle"
  /\ ResetLocals

\* One iteration of an analysis loop over extraction_data: analyze, save the
\* answer if there is one, count it, time.sleep(request_delay = 1.0).
AnalyzeAndSave(extraction_data, analysis, rest_new, rest_backlog) ==
  LET s == SaveAiAnalysis(analysis, run_id) IN
  IF analysis.present /\ s.raised
  THEN /\ ExceptionEscapes("IntegrityError")
       /\ last_op' = [op |-> "save_ai_analysis", ret |-> FALSE, subject |-> extraction_data]
       /\ UNCHANGED <<clock, rmt_profiles, ai_analyses, leaderboard_snapshots>>
  ELSE /\ clock < MaxTime
       /\ clock' = clock + 1
       /\ ai_analyses' = IF analysis.present THEN s.rows ELSE ai_analyses
       /\ stats' = IF analysis.present THEN [stats EXCEPT !.reviews_analyzed = @ + 1] ELSE stats
       /\ last_op' = IF analysis.present
                     THEN [op |-> "save_ai_analysis", ret |-> s.saved, subject |-> extraction_data]
                     ELSE [op |-> "analyze_single_review", ret |-> FALSE, subject |-> extraction_data]
       /\ all_extractions' = rest_new
       /\ unanalyzed' = rest_backlog
       /\ UNCHANGED <<monitoring_runs, rmt_profiles, leaderboard_snapshots, pc, run_id,
                      processed_rmts, pending, tally, outcome>>

AnalyzeNew ==
  /\ pc = "analyze"
  /\ all_extractions # <<>>
  /\ \E analysis \in AnalyzeSingleReview(ExtractionToDict(Head(all_extractions))) :
        AnalyzeAndSave(ExtractionToDict(Head(all_extractions)), analysis,
                       Tail(all_extractions), unanalyzed)
  /\ UNCHANGED call
  /\ UNCHANGED pure

\* End of the new-extraction loop; run_incremental_update then queries the
\* backlog with limit=50.
FinishAnalysis ==
  /\ pc = "analyze"
  /\ all_extractions = <<>>
  /\ IF CurrentRunType = "incremental"
     THEN /\ pc' = "backlog"
          /\ unanalyzed' = GetUnanalyzedExtractions(BacklogLimit)
     ELSE /\ pc' = "snapshot"
          /\ unanalyzed' = unanalyzed
  /\ UNCHANGED <<clock, tables, run_id, stats, processed_rmts, pending, all_extractions,
                 tally, call, outcome, last_op>>
  /\ UNCHANGED pure

AnalyzeBacklog ==
  /\ pc = "backlog"
  /\ unanalyzed # <<>>
  /\ IF DbExtractionToDictRaises(Head(unanalyzed))
     THEN /\ ExceptionEscapes("TypeError")
          /\ UNCHANGED <<clock, rmt_profiles, ai_analyses, leaderboard_snapshots, last_op>>
     ELSE \E analysis \in AnalyzeSingleReview(Head(unanalyzed)) :
             AnalyzeAndSave(Head(unanalyzed), analysis, all_extractions, Tail(unanalyzed))
  /\ UNCHANGED call
  /\ UNCHANGED pure

FinishBacklog ==
  /\ pc = "backlog"
  /\ unanalyzed = <<>>
  /\ pc' = "snapshot"
  /\ UNCHANGED <<clock, tables, locals, call, outcome, last_op>>
  /\ UNCHANGED pure

\* _generate_leaderboard_snapshot(run_id); complete_monitoring_run(run_id, stats);
\* return run_id
SnapshotAndComplete ==
  /\ pc = "snapshot"
  /\ LET g == GenerateLeaderboardSnapshot(run_id) IN
     /\ leaderboard_snapshots' = g.rows
     /\ IF g.raised
        THEN ExceptionEscapes("IntegrityError")
        ELSE /\ monitoring_runs' = CompleteMonitoringRun(run_id, stats, None)
             /\ outcome' = Outcome("returned", run_id, None)
             /\ pc' = "idle"
             /\ ResetLocals
  /\ last_op' = [op |-> "complete_monitoring_run", ret |-> TRUE, subject |-> NoSubject]
  /\ UNCHANGED <<clock, rmt_profiles, ai_analyses, call>>
  /\ UNCHANGED pure

\* Any other exception raised inside the try block (storage unavailable, ...)
Fault(error) ==
  /\ pc \in {"extract", "analyze", "backlog", "snapshot"}
  /\ ExceptionEscapes(error)
  /\ last_op' = [op |-> "complete_monitoring_run", ret |-> TRUE, subject |-> NoSubject]
  /\ UNCHANGED <<clock, rmt_profiles, ai_analyses, leaderboard_snapshots, call>>
  /\ UNCHANGED pure

\* KeyboardInterrupt or a killed process: not an Exception, so no except clause
\* runs; every committed row stays as it is.
Interrupt ==
  /\ pc # "idle"
  /\ pc' = "idle"
  /\ outcome' = Outcome("interrupted", run_id, None)
  /\ ResetLocals
  /\ UNCHANGED <<clock, tables, call, last_op>>
  /\ UNCHANGED pure

\* run_analysis(limit, delay) of run_analysis_only.py
RunAnalysis(limit) ==
  /\ pc = "idle"
  /\ Len(monitoring_runs) < MaxRuns
  /\ call' = [op |-> "run_analysis", mode |-> "analysis_only", had_completed |-> HasSuccessfulRun]
  /\ LET u == GetUnanalyzedReviews(limit)
         s == StartMonitoringRun("analysis_only")
     IN  IF u = <<>>
         THEN /\ outcome' = Outcome("returned", NoRun, None)
              /\ UNCHANGED <<pc, tables, locals, last_op>>
         ELSE /\ monitoring_runs' = s.rows
              /\ last_op' = [op |-> "create_monitoring_run", ret |-> ~s.raised, subject |-> NoSubject]
              /\ UNCHANGED <<rmt_profiles, ai_analyses, leaderboard_snapshots>>
              /\ IF s.raised
                 THEN /\ pc' = "idle"
                      /\ outcome' = Outcome("raised", NoRun, "IntegrityError")
                      /\ ResetLocals
                 ELSE /\ pc' = "ao_analyze"
                      /\ outcome' = Outcome("running", s.run_id, None)
                      /\ run_id' = s.run_id
                      /\ unanalyzed' = u
                      /\ tally' = [successful |-> 0, failed |-> 0, total |-> Len(u)]
                      /\ UNCHANGED <<stats, processed_rmts, pending, all_extractions>>
  /\ UNCHANGED clock
  /\ UNCHANGED pure

\* One iteration of run_analysis's loop; an exception of save_analysis is caught
\* and counted as failed.  The sleep is the caller's delay (>= 0): Tick covers it.
AnalyzeOnly ==
  /\ pc = "ao_analyze"
  /\ unanalyzed # <<>>
  /\ \E analysis \in AnalyzeSingleReview(Head(unanalyzed)) :
       LET s == SaveAnalysis(analysis, run_id) IN
       /\ ai_analyses' = IF analysis.present THEN s.rows ELSE ai_analyses
       /\ tally' = IF analysis.present /\ ~s.raised
                   THEN [tally EXCEPT !.successful = @ + 1]
                   ELSE [tally EXCEPT !.failed = @ + 1]
       /\ last_op' = IF analysis.present
                     THEN [op |-> "save_analysis", ret |-> s.saved, subject |-> Head(unanalyzed)]
                     ELSE [op |-> "analyze_single_review", ret |-> FALSE, subject |-> Head(unanalyzed)]
  /\ unanalyzed' = Tail(unanalyzed)
  /\ UNCHANGED <<clock, monitoring_runs, rmt_profiles, leaderboard_snapshots, pc, run_id,
                 stats, processed_rmts, pending, all_extractions, call, outcome>>
  /\ UNCHANGED pure

FinishAnalysisOnly ==
  /\ pc = "ao_analyze"
  /\ unanalyzed = <<>>
  /\ monitoring_runs' = UpdateMonitoringRun(run_id, tally.total, tally.successful, tally.failed)
  /\ outcome' = Outcome("returned", run_id, None)
  /\ pc' = "idle"
  /\ ResetLocals
  /\ last_op' = [op |-> "update_monitoring_run", ret |-> TRUE, subject |-> NoSubject]
  /\ UNCHANGED <<clock, rmt_profiles, ai_analyses, leaderboard_snapshots, call>>
  /\ UNCHANGED pure

Tick ==
  /\ clock < MaxTime
  /\ clock' = clock + 1
  /\ UNCHANGED <<tables, pc, locals, call, outcome, last_op>>
  /\ UNCHANGED pure

Next ==
  \/ \E mode \in {"full", "rebuild"} : RunFullAnalysis(mode)
  \/ RunIncrementalUpdate
  \/ \E rmt_data \in RmtData : \E extractions \in ExtractReviewData(rmt_data.profile_id) :
        ProcessProfile(rmt_data, extractions)
  \/ SaveExtraction
  \/ FinishExtraction
  \/ AnalyzeNew
  \/ FinishAnalysis
  \/ AnalyzeBacklog
  \/ FinishBacklog
  \/ SnapshotAndComplete
  \/ \E error \in ErrorTexts : Fault(error)
  \/ Interrupt
  \/ \E limit \in Limits : RunAnalysis(limit)
  \/ AnalyzeOnly
  \/ FinishAnalysisOnly
  \/ Tick

Spec == Init /\ [][Next]_vars

\* ------------------------------------------ the database API called directly
\* Any sequence of save_rmt_profile and save_review_extraction calls, under any
\* of the run ids a run can have.  One professional gets a row; extractions
\* are recorded for both, so the other one never has a row to update.
RunIdPool == {<<"full", "_", "0">>, <<"incremental", "_", "1">>}

StoreRmtData == {Fetch(<<"p1">>, name) : name \in FirstNames}

CallSaveRmtProfile(rmt_data, rid) ==
  /\ rmt_profiles' = SaveRmtProfile(rmt_data, rid)
  /\ last_op' = [op |-> "save_rmt_profile", ret |-> TRUE,
                 subject |-> [NoSubject EXCEPT !.profile_id = rmt_data.profile_id]]
  /\ UNCHANGED <<clock, monitoring_runs, ai_analyses, leaderboard_snapshots, pc, locals,
                 call, outcome>>
  /\ UNCHANGED pure

CallSaveReviewExtraction(e, rid) ==
  /\ LET r == SaveReviewExtraction(e, rid)
     IN  /\ rmt_profiles' = r.rows
         /\ last_op' = [op |-> "save_review_extraction", ret |-> r.ret,
                        subject |-> ExtractionToDict(e)]
  /\ UNCHANGED <<clock, monitoring_runs, ai_analyses, leaderboard_snapshots, pc, locals,
                 call, outcome>>
  /\ UNCHANGED pure

StoreNext ==
  \/ \E rmt_data \in StoreRmtData : \E rid \in RunIdPool : CallSaveRmtProfile(rmt_data, rid)
  \/ \E pid \in ProfileIds : \E e \in ReviewExtractions(pid) : \E rid \in RunIdPool :
        CallSaveReviewExtraction(e, rid)
  \/ Tick

StoreSpec == Init /\ [][StoreNext]_vars

\* ================================================= reputation scores
\* Python floats are modelled as exact fractions [num, den] with den > 0.
Q(n, d) == [num |-> n, den |-> d]

QAdd(a, b) == Q(a.num * b.den + b.num * a.den, a.den * b.den)

QSub(a, b) == Q(a.num * b.den - b.num * a.den, a.den * b.den)

QMul(a, b) == Q(a.num * b.num, a.den * b.den)

QLe(a, b) == a.num * b.den <= b.num * a.den

QMax(a, b) == IF QLe(b, a) THEN a ELSE b

QMin(a, b) == IF QLe(a, b) THEN a ELSE b

\* The analysis results of one professional: the fields the two scores read.
\* Ratings are 1..5 or absent; confidences are in tenths.
NoRating == 0

ReviewAnalyses ==
  [overall_sentiment : {"very_positive", "positive", "neutral", "negative", "very_negative"},
   technical_skill_rating : {NoRating, 1, 5},
   communication_rating : {NoRating, 1, 5},
   professionalism_rating : {NoRating, 3},
   mention_confidence : {5, 10},
   overall_analysis_confidence : {0, 5, 10},
   recommendation_given : BOOLEAN,
   repeat_client_indicated : BOOLEAN,
   potential_false_positive : BOOLEAN]

\* The lowest- and the highest-scoring result, mixed into a group.
WorstAnalysis ==
  [overall_sentiment |-> "very_negative", technical_skill_rating |-> 1,
   communication_rating |-> 1, professionalism_rating |-> NoRating, mention_confidence |-> 5,
   overall_analysis_confidence |-> 5, recommendation_given |-> FALSE,
   repeat_client_indicated |-> FALSE, potential_false_positive |-> TRUE]

BestAnalysis ==
  [overall_sentiment |-> "very_positive", technical_skill_rating |-> 5,
   communication_rating |-> 5, professionalism_rating |-> NoRating, mention_confidence |-> 10,
   overall_analysis_confidence |-> 10, recommendation_given |-> TRUE,
   repeat_client_indicated |-> TRUE, potential_false_positive |-> FALSE]

MaxAnalyses == 11

AnalysisGroups ==
  {Repeat(a, n) \o extra : a \in ReviewAnalyses, n \in {0, 1, 4, MaxAnalyses},
                           extra \in {<<>>, <<WorstAnalysis>>, <<BestAnalysis>>}}

\* sum(1 for a in group_analyses if <test>), for the outcomes of the test
Count(tests) == Cardinality({i \in 1..Len(tests) : tests[i]})

RECURSIVE Sum(_)
Sum(xs) == IF xs = <<>> THEN 0 ELSE Head(xs) + Sum(Tail(xs))

\* sentiment_scores of calculate_leaderboard_metrics, in halves
SentimentHalves(a) ==
  CASE a.overall_sentiment = "very_positive" -> 2
    [] a.overall_sentiment = "positive" -> 1
    [] a.overall_sentiment = "very_negative" -> -2
    [] a.overall_sentiment = "negative" -> -1
    [] OTHER -> 0

\* [a.<field> for a in group_analyses if a.<field> is not None]
RatingsOf(analyses, field) ==
  LET all == [i \in 1..Len(analyses) |-> analyses[i][field]]
  IN  SelectSeq(all, LAMBDA r : r # NoRating)

\* Defect variant: the result is not clamped to 0..100.
CalculateCompositeScoreUnclamped(total_reviews, high_confidence, avg_sentiment, technical, communication, professionalism, recommendations, repeat_clients, false_positives) ==
  IF total_reviews = 0 THEN Q(0, 1)
  ELSE
    LET sentiment_score == QMax(Q(0, 1), QMin(Q(40, 1), QMul(QAdd(avg_sentiment, Q(1, 1)), Q(20, 1))))
        quality_scores == technical \o communication \o professionalism
        quality_score ==
          IF quality_scores # <<>>
          THEN QMul(QSub(Q(Sum(quality_scores), Len(quality_scores)), Q(1, 1)), Q(15, 2))
          ELSE Q(15, 1)
        confidence_ratio == Q(high_confidence, total_reviews)
        volume_bonus == QMin(Q(10, 1), Q(total_reviews, 1))
        confidence_bonus == QMul(confidence_ratio, Q(10, 1))
        recommendation_bonus == QMul(Q(recommendations, total_reviews), Q(5, 1))
        repeat_client_bonus == QMul(Q(repeat_clients, total_reviews), Q(5, 1))
        false_positive_penalty == QMin(Q(20, 1), Q(false_positives * 5, 1))
    IN  QSub(QAdd(QAdd(QAdd(QAdd(QAdd(sentiment_score, quality_score), volume_bonus),
                            confidence_bonus), recommendation_bonus), repeat_client_bonus),
             false_positive_penalty)

\* _calculate_composite_score
CalculateCompositeScore(total_reviews, high_confidence, avg_sentiment, technical, communication, professionalism, recommendations, repeat_clients, false_positives) ==
  IF total_reviews = 0 THEN Q(0, 1)
  ELSE
    LET sentiment_score == QMax(Q(0, 1), QMin(Q(40, 1), QMul(QAdd(avg_sentiment, Q(1, 1)), Q(20, 1))))
        quality_scores == technical \o communication \o professionalism
        quality_score ==
          IF quality_scores # <<>>
          THEN QMul(QSub(Q(Sum(quality_scores), Len(quality_scores)), Q(1, 1)), Q(15, 2))
          ELSE Q(15, 1)
        confidence_ratio == Q(high_confidence, total_reviews)
        volume_bonus == QMin(Q(10, 1), Q(total_reviews, 1))
        confidence_bonus == QMul(confidence_ratio, Q(10, 1))
        recommendation_bonus == QMul(Q(recommendations, total_reviews), Q(5, 1))
        repeat_client_bonus == QMul(Q(repeat_clients, total_reviews), Q(5, 1))
        false_positive_penalty == QMin(Q(20, 1), Q(false_positives * 5, 1))
        composite ==
          QSub(QAdd(QAdd(QAdd(QAdd(QAdd(sentiment_score, quality_score), volume_bonus),
                              confidence_bonus), recommendation_bonus), repeat_client_bonus),
               false_positive_penalty)
    IN  QMax(Q(0, 1), QMin(Q(100, 1), composite))

\* calculate_leaderboard_metrics for the analyses of one professional
GroupCompositeScore(analyses) ==
  CalculateCompositeScore(
    Len(analyses),
    Count([i \in 1..Len(analyses) |-> analyses[i].mention_confidence > 8]),
    IF analyses = <<>> THEN Q(0, 1)
    ELSE Q(Sum([i \in 1..Len(analyses) |-> SentimentHalves(analyses[i])]), 2 * Len(analyses)),
    RatingsOf(analyses, "technical_skill_rating"),
    RatingsOf(analyses, "communication_rating"),
    RatingsOf(analyses, "professionalism_rating"),
    Count([i \in 1..Len(analyses) |-> analyses[i].recommendation_given]),
    Count([i \in 1..Len(analyses) |-> analyses[i].repeat_client_indicated]),
    Count([i \in 1..Len(analyses) |-> analyses[i].potential_false_positive]))

\* composite_score of _generate_leaderboard_snapshot for one row of its query;
\* avg_confidence is AVG(overall_analysis_confidence), a fraction of 1.
SnapshotCompositeScore(total_reviews, positive_count, negative_count, avg_confidence, false_positives) ==
  LET sentiment_score ==
        IF total_reviews > 0
        THEN QAdd(QMul(Q(positive_count - negative_count, total_reviews), Q(50, 1)), Q(50, 1))
        ELSE Q(50, 1)
      confidence_penalty ==
        IF avg_confidence.num # 0
        THEN QMax(Q(0, 1), QMul(QSub(Q(1, 1), avg_confidence), Q(20, 1)))
        ELSE Q(0, 1)
      false_positive_penalty == QMin(Q(20, 1), Q(false_positives * 5, 1))
  IN  QMax(Q(0, 1), QMin(Q(100, 1),
           QSub(QSub(sentiment_score, confidence_penalty), false_positive_penalty)))

\* The row the snapshot query yields for the stored analyses of one professional
StoredCompositeScore(analyses) ==
  SnapshotCompositeScore(
    Len(analyses),
    Count([i \in 1..Len(analyses) |-> analyses[i].overall_sentiment \in {"very_positive", "positive"}]),
    Count([i \in 1..Len(analyses) |-> analyses[i].overall_sentiment \in {"very_negative", "negative"}]),
    Q(Sum([i \in 1..Len(analyses) |-> analyses[i].overall_analysis_confidence]),
      10 * Len(analyses)),
    Count([i \in 1..Len(analyses) |-> analyses[i].potential_false_positive]))

ScoreInit ==
  /\ PipelineInit
  /\ invocation \in {[op |-> "score", analyses |-> g] : g \in AnalysisGroups}
  /\ returned = NoReturn

CalculateLeaderboardMetrics ==
  /\ invocation.op = "score"
  /\ returned = NoReturn
  /\ returned' = [op |-> "calculate_leaderboard_metrics",
                  composite_score |-> GroupCompositeScore(invocation.analyses)]
  /\ UNCHANGED <<clock, tables, pc, locals, call, outcome, last_op, invocation>>

\* The query's HAVING total_reviews > 0 yields no row for an empty group.
GenerateSnapshotScore ==
  /\ invocation.op = "score"
  /\ returned = NoReturn
  /\ invocation.analyses # <<>>
  /\ returned' = [op |-> "_generate_leaderboard_snapshot",
                  composite_score |-> StoredCompositeScore(invocation.analyses)]
  /\ UNCHANGED <<clock, tables, pc, locals, call, outcome, last_op, invocation>>

ScoreSpec == ScoreInit /\ [][CalculateLeaderboardMetrics \/ GenerateSnapshotScore]_vars

\* ====================================================== the match engine
\* Texts and terms are sequences of characters, so that lower(), re.sub,
\* split(), `in` and the regular-expression searches are computed.
NameConfidenceThreshold == 75
LocationConfidenceThreshold == 60
ExactConfidence == 95
WordBoundaryConfidence == 90

IsWordChar(c) == c \in {"j", "o", "l", "i", "J", "L"}

IsSpace(c) == c = " "

LowerChar(c) == CASE c = "J" -> "j" [] c = "L" -> "l" [] OTHER -> c

\* str.lower()
Lower(s) == [k \in 1..Len(s) |-> LowerChar(s[k])]

\* re.sub(r'[^\w\s]', ' ', text.lower())
CleanText(text) ==
  [k \in 1..Len(text) |->
     IF IsWordChar(text[k]) \/ IsSpace(text[k]) THEN LowerChar(text[k]) ELSE " "]

\* str.split(): the maximal runs of non-whitespace characters
Words(s) ==
  LET starts == {k \in 1..Len(s) : ~IsSpace(s[k]) /\ (k = 1 \/ IsSpace(s[k - 1]))}
      EndOf(k) == CHOOSE e \in k..Len(s) :
                    /\ \A m \in k..e : ~IsSpace(s[m])
                    /\ (e = Len(s) \/ IsSpace(s[e + 1]))
      Nth(n) == CHOOSE k \in starts : Cardinality({m \in starts : m < k}) = n - 1
  IN  [n \in 1..Cardinality(starts) |-> SubSeq(s, Nth(n), EndOf(Nth(n)))]

\* ' '.join(words)
RECURSIVE Join(_)
Join(words) ==
  IF words = <<>> THEN <<>>
  ELSE IF Len(words) = 1 THEN words[1]
  ELSE words[1] \o <<" ">> \o Join(Tail(words))

\* sub in s
Contains(sub, s) ==
  \E k \in 0..(Len(s) - Len(sub)) : SubSeq(s, k + 1, k + Len(sub)) = sub

\* Positions at which re.escape(pat).replace(r'\ ', r'\s+'), matched from
\* position k of s under re.IGNORECASE, can end: a space of the pattern takes
\* one or more whitespace characters, any other character takes itself.
RECURSIVE MatchEnds(_, _, _)
MatchEnds(pat, s, k) ==
  IF pat = <<>> THEN {k - 1}
  ELSE IF k > Len(s) THEN {}
  ELSE IF IsSpace(Head(pat))
       THEN UNION {MatchEnds(Tail(pat), s, k + n) :
                     n \in {m \in 1..(Len(s) - k + 1) : \A x \in k..(k + m - 1) : IsSpace(s[x])}}
       ELSE IF LowerChar(s[k]) = LowerChar(Head(pat))
            THEN MatchEnds(Tail(pat), s, k + 1)
            ELSE {}

NoMatch == <<"<no match>">>

\* re.search(pattern, s, re.IGNORECASE).group(), or NoMatch for None; with
\* bounded the pattern is wrapped in \b ... \b.  The leftmost start wins and
\* \s+ is greedy.
Search(pat, s, bounded) ==
  LET AtWordBoundary(k) ==
        (k > 1 /\ IsWordChar(s[k - 1])) # (k <= Len(s) /\ IsWordChar(s[k]))
      EndsAt(k) == {e \in MatchEnds(pat, s, k) :
                      ~bounded \/ (AtWordBoundary(k) /\ AtWordBoundary(e + 1))}
      hits == {k \in 1..(Len(s) + 1) : EndsAt(k) # {}}
  IN  IF hits = {} THEN NoMatch
      ELSE LET k == CHOOSE x \in hits : \A y \in hits : x <= y
           IN  SubSeq(s, k, CHOOSE e \in EndsAt(k) : \A y \in EndsAt(k) : y <= e)

Threshold(match_type) ==
  IF match_type = "name" THEN NameConfidenceThreshold ELSE LocationConfidenceThreshold

\* Method 1's test: term_lower in clean_text
QualifiesExact(term, text) == Contains(Lower(term), CleanText(text))

\* Method 2's test: re.search(r'\b' + term + r'\b', clean_text)
QualifiesWordBoundary(term, text) == Search(Lower(term), CleanText(text), TRUE) # NoMatch

\* Defect variant: a score equal to the threshold does not qualify.
QualifiesFuzzyAbove(score, threshold) == score > threshold

\* Methods 3 and 4: score >= threshold
QualifiesFuzzy(score, threshold) == score >= threshold

MatchResult(term, confidence, segment) ==
  [term |-> term, confidence |-> confidence, segment |-> segment]

FullTextSegment == <<"[Fuzzy match in full text]">>

\* words[i:j] for the j of range(i + 1, min(i + 5, len(words) + 1))
WordCombos(words, i) ==
  [n \in 1..(IF Len(words) - i + 1 < 4 THEN Len(words) - i + 1 ELSE 4) |->
     Join(SubSeq(words, i, i + n - 1))]

\* Method 4 for the windows starting at word i: the first window whose
\* fuzz.ratio reaches the threshold is appended, and the inner loop breaks.
WindowMatches(term, text, threshold, ratio, i) ==
  LET combos == WordCombos(Words(CleanText(text)), i)
      good == {n \in 1..Len(combos) : QualifiesFuzzy(ratio[combos[n]], threshold)}
  IN  IF good = {} THEN <<>>
      ELSE LET word_combo == combos[CHOOSE n \in good : \A m \in good : n <= m]
               original_match == Search(word_combo, text, FALSE)
           IN  <<MatchResult(term, ratio[word_combo],
                             IF original_match # NoMatch THEN original_match ELSE word_combo)>>

RECURSIVE Flatten(_)
Flatten(seqs) == IF seqs = <<>> THEN <<>> ELSE Head(seqs) \o Flatten(Tail(seqs))

\* The body of the loop over search_terms: what one term appends to matches.
\* fz holds what fuzz.partial_ratio and fuzz.ratio return for this term.
TermMatches(term, text, match_type, fz) ==
  LET threshold == Threshold(match_type)
      exact == Search(term, text, FALSE)
      bounded == Search(Lower(term), text, TRUE)
      nwords == Len(Words(CleanText(text)))
  IN  IF QualifiesExact(term, text)
      THEN IF exact # NoMatch THEN <<MatchResult(term, ExactConfidence, exact)>> ELSE <<>>
      ELSE IF QualifiesWordBoundary(term, text)
      THEN IF bounded # NoMatch THEN <<MatchResult(term, WordBoundaryConfidence, bounded)>>
           ELSE <<>>
      ELSE IF QualifiesFuzzy(fz.partial_ratio, threshold)
      THEN <<MatchResult(term, fz.partial_ratio, FullTextSegment)>>
      ELSE Flatten([i \in 1..nwords |-> WindowMatches(term, text, threshold, fz.ratio, i)])

\* sorted(matches, key=lambda x: x[1], reverse=True): stable
RECURSIVE SortByConfidence(_)
SortByConfidence(matches) ==
  IF matches = <<>> THEN <<>>
  ELSE LET top == CHOOSE k \in 1..Len(matches) :
                    /\ \A m \in 1..Len(matches) : matches[m].confidence <= matches[k].confidence
                    /\ \A m \in 1..(k - 1) : matches[m].confidence < matches[k].confidence
       IN  <<matches[top]>> \o
           SortByConfidence(SubSeq(matches, 1, top - 1) \o SubSeq(matches, top + 1, Len(matches)))

\* Remove duplicates (keep highest confidence): the first entry of each term
UniqueMatches(sorted) ==
  SelectSeq([k \in 1..Len(sorted) |->
               [m |-> sorted[k],
                first |-> \A x \in 1..(k - 1) : sorted[x].term # sorted[k].term]],
            LAMBDA e : e.first)

\* find_text_matches(text, search_terms, match_type); fuzz[term] holds the
\* scores the fuzzy-matching library returns for that term.
FindTextMatches(text, search_terms, match_type, fuzz) ==
  IF text = <<>> \/ search_terms = <<>> THEN <<>>
  ELSE LET matches == Flatten([k \in 1..Len(search_terms) |->
                         TermMatches(search_terms[k], text, match_type, fuzz[search_terms[k]])])
           unique == UniqueMatches(SortByConfidence(matches))
       IN  [k \in 1..Len(unique) |-> unique[k].m]

\* ------------------------------------------------ inputs of the match engine
MatchTexts ==
  {<<>>,
   <<"J", "o">>,
   <<"J", "o", " ", "L", "i">>,
   <<"J", "o", "-", "L", "i">>,
   <<"J", "o", " ", " ", "L", "i">>,
   <<"J", "o", ",", " ", "L", "i">>,
   <<"L", "i", ",", " ", "J", "o">>,
   <<"j", "o", "l", " ", "l", "i">>}

MatchTerms ==
  {<<"J", "o">>,
   <<"L", "i">>,
   <<"J", "o", " ", "L", "i">>,
   <<"L", "i", ",", " ", "J", "o">>,
   <<"L", "o">>}

MaxTerms == 2

TermLists ==
  {ts \in UNION {[1..n -> MatchTerms] : n \in 0..MaxTerms} :
     \A a, b \in 1..Len(ts) : a # b => ts[a] # ts[b]}

AllCombos(text) ==
  LET words == Words(CleanText(text))
  IN  UNION {{WordCombos(words, i)[n] : n \in 1..Len(WordCombos(words, i))} : i \in 1..Len(words)}

ReachesFuzzy(term, text) ==
  text # <<>> /\ ~QualifiesExact(term, text) /\ ~QualifiesWordBoundary(term, text)

\* What fuzz.partial_ratio(term_lower, clean_text) can return: 100 when the
\* whole text lies inside the term, otherwise a score at or just below the
\* threshold; 0 stands for a call that is never made.
PartialRatios(term, text, match_type) ==
  IF ~ReachesFuzzy(term, text) THEN {0}
  ELSE IF Contains(CleanText(text), Lower(term)) THEN {100}
  ELSE {Threshold(match_type) - 1, Threshold(match_type)}

\* What fuzz.ratio(term_lower, word_combo) can return for the windows of the
\* text, given the partial ratio p: below 100, since a window equal to the
\* term is a word-boundary hit, and no more than p for a window that is the
\* whole text and as long as the term (partial_ratio then aligns the two).
Ratios(term, text, match_type, p) ==
  IF ~ReachesFuzzy(term, text) THEN [AllCombos(text) -> {0}]
  ELSE {r \in [AllCombos(text) ->
                 {Threshold(match_type) - 1, Threshold(match_type), WordBoundaryConfidence}] :
          (CleanText(text) \in AllCombos(text) /\ Len(CleanText(text)) = Len(term))
             => r[CleanText(text)] <= p}

\* One choice of library scores for every term of the list
RECURSIVE FuzzScores(_, _, _)
FuzzScores(text, search_terms, match_type) ==
  IF search_terms = <<>> THEN {<<>>}
  ELSE LET term == Head(search_terms)
           of_term == UNION {{[partial_ratio |-> p, ratio |-> r] :
                                 r \in Ratios(term, text, match_type, p)} :
                             p \in PartialRatios(term, text, match_type)}
       IN  {<<fz>> \o rest :
              fz \in of_term, rest \in FuzzScores(text, Tail(search_terms), match_type)}

MatchInit ==
  /\ PipelineInit
  /\ \E text \in MatchTexts, ts \in TermLists, mt \in {"name", "location"} :
       \E f \in FuzzScores(text, ts, mt) :
          invocation = [op |-> "find_text_matches", text |-> text, search_terms |-> ts,
                        match_type |-> mt,
                        fuzz |-> [t \in {ts[k] : k \in 1..Len(ts)} |->
                                    f[CHOOSE k \in 1..Len(ts) : ts[k] = t]]]
  /\ returned = NoReturn

CallFindTextMatches ==
  /\ invocation.op = "find_text_matches"
  /\ returned = NoReturn
  /\ returned' = [op |-> "find_text_matches",
                  matches |-> FindTextMatches(invocation.text, invocation.search_terms,
                                              invocation.match_type, invocation.fuzz)]
  /\ UNCHANGED <<clock, tables, pc, locals, call, outcome, last_op, invocation>>

MatchSpec == MatchInit /\ [][CallFindTextMatches]_vars

\* ================================================== the name variations
\* generate_name_variations, with names as sequences of characters.  The code
\* returns list(set(...)): the members are modelled, their order is arbitrary.
GenerateNameVariations(rmt_data) ==
  LET first_names == {rmt_data.first_name, rmt_data.common_first_name} \ {<<>>}
      last_names == {rmt_data.last_name, rmt_data.common_last_name} \ {<<>>}
      Of(first, last) ==
        {first \o <<" ">> \o last,
         last \o <<",", " ">> \o first,
         last \o <<" ">> \o first,
         <<"D", "r", ".", " ">> \o first \o <<" ">> \o last,
         <<"D", "r", " ">> \o first \o <<" ">> \o last,
         first \o <<" ">> \o last \o <<",", " ", "R", "M", "T">>,
         first \o <<" ">> \o last \o <<" ", "R", "M", "T">>,
         <<Head(first), ".", " ">> \o last,
         first \o <<" ", Head(last), ".">>,
         <<Head(first), " ">> \o last,
         first \o <<" ", Head(last)>>,
         first,
         last}
      variations == UNION {Of(first, last) : first \in first_names, last \in last_names}
  IN  {v \in variations : Len(v) >= 2}

\* The values of a name field: empty, one character, two or three characters
NameFields == {<<>>, <<"J">>, <<"J", "o">>, <<"L", "i">>, <<"j", "o", "l">>}

NameInit ==
  /\ PipelineInit
  /\ invocation \in [op : {"generate_name_variations"}, first_name : NameFields,
                     common_first_name : NameFields, last_name : NameFields,
                     common_last_name : NameFields]
  /\ returned = NoReturn

CallGenerateNameVariations ==
  /\ invocation.op = "generate_name_variations"
  /\ returned = NoReturn
  /\ returned' = [op |-> "generate_name_variations",
                  variations |-> GenerateNameVariations(invocation)]
  /\ UNCHANGED <<clock, tables, pc, locals, call, outcome, last_op, invocation>>

NameSpec == NameInit /\ [][CallGenerateNameVariations]_vars

\* ================================================== the registry search
\* search_cmto_profiles(keyword, limit, get_all_pages).  The registry holds
\* `available` results for the keyword, numbered in its sort order, and serves
\* them in pages of `take`; the detail request of the result `unavailable`
\* fails (0: none does).  returned holds the function's locals while it loops
\* and its return value once done.
Take == 10
MaxRmtsPerKeyword == 50
MaxAvailable == 60
MaxRejected == 2

\* The 'result' array of the search response for the offset skip
SearchResults(available, skip) ==
  [k \in 1..(IF available - skip < 0 THEN 0
             ELSE IF available - skip < Take THEN available - skip ELSE Take) |-> skip + k]

SearchInit ==
  /\ PipelineInit
  /\ invocation \in [op : {"search_cmto_profiles"},
                     available : {0, 1, Take, Take + 1, MaxRmtsPerKeyword,
                                  MaxRmtsPerKeyword + 1, MaxAvailable},
                     unavailable : {0, 1},
                     limit : {NoLimit, MaxRmtsPerKeyword},
                     get_all_pages : BOOLEAN]
  /\ returned = [op |-> "search_cmto_profiles", done |-> FALSE, failed |-> FALSE,
                 skip |-> 0, profiles |-> <<>>, rejected |-> 0]

\* One iteration of `while True` for a page that arrives.  The limit test of
\* the inner loop reads len(profiles), which grows only after the page.
SearchPage ==
  /\ invocation.op = "search_cmto_profiles"
  /\ ~returned.done
  /\ LET results == SearchResults(invocation.available, returned.skip)
         limit == invocation.limit
         page_profiles ==
           IF limit > 0 /\ Len(returned.profiles) >= limit THEN <<>>
           ELSE SelectSeq(results, LAMBDA id : id # invocation.unavailable)
         profiles == returned.profiles \o page_profiles
     IN  returned' =
           IF results = <<>>
           THEN [returned EXCEPT !.done = TRUE]
           ELSE [returned EXCEPT
                   !.profiles = profiles,
                   !.skip = @ + Take,
                   !.done = \/ Len(results) < Take
                            \/ (limit > 0 /\ Len(profiles) >= limit)
                            \/ ~invocation.get_all_pages]
  /\ UNCHANGED <<clock, tables, pc, locals, call, outcome, last_op, invocation>>

\* A request raises (SSL, connection, timeout): the except clauses log it and
\* the profiles retrieved so far are returned.
SearchFault ==
  /\ invocation.op = "search_cmto_profiles"
  /\ ~returned.done
  /\ returned' = [returned EXCEPT !.done = TRUE, !.failed = TRUE]
  /\ UNCHANGED <<clock, tables, pc, locals, call, outcome, last_op, invocation>>

\* One iteration of `while True` whose response has a status other than 200 or
\* a body that is not JSON: the error is logged and `continue` starts the next
\* iteration; skip, profiles and the loop condition are as before.  rejected
\* counts these responses.
SearchRejected ==
  /\ invocation.op = "search_cmto_profiles"
  /\ ~returned.done
  /\ returned.rejected < MaxRejected
  /\ returned' = [returned EXCEPT !.rejected = @ + 1]
  /\ UNCHANGED <<clock, tables, pc, locals, call, outcome, last_op, invocation>>

SearchSpec == SearchInit /\ [][SearchPage \/ SearchRejected \/ SearchFault]_vars

\* ================================================================ claims

\* C1: in every professional's stored extraction list no two records have the
\* same content hash, and no two records have the same text, author and time:
\* recording an extraction again leaves exactly one record of it.
C1_NoDuplicateExtraction ==
  \A r \in 1..Len(rmt_profiles) :
    \A i, j \in 1..Len(rmt_profiles[r].reviews_data) :
       LET a == rmt_profiles[r].reviews_data[i]
           b == rmt_profiles[r].reviews_data[j]
       IN  (\/ a.review_hash = b.review_hash
            \/ /\ a.review_text = b.review_text
               /\ a.review_author = b.review_author
               /\ a.review_timestamp = b.review_timestamp) => i = j

\* An extraction was recorded a second time and the list holds one record of it.
C1_Witness ==
  /\ last_op.op = "save_review_extraction"
  /\ ~last_op.ret
  /\ Cardinality({i \in 1..Len(ExistingReviews(last_op.subject.profile_id)) :
         /\ ExistingReviews(last_op.subject.profile_id)[i].review_text = last_op.subject.review_text
         /\ ExistingReviews(last_op.subject.profile_id)[i].review_author = last_op.subject.review_author})
       = 1

\* C2: a save_review_extraction call whose content hash is already stored for
\* the professional returns False and changes no table: the extraction list,
\* total_reviews, last_review_date, last_updated_run_id and the stored record's
\* originating run id stay as they were.
C2_DuplicateSaveChangesNothing ==
  [][\A pid \in ProfileIds : \A e \in ReviewExtractions(pid) : \A rid \in RunIdPool :
       (ReviewAlreadyExists(e) /\ CallSaveReviewExtraction(e, rid))
          => (~last_op'.ret /\ UNCHANGED tables)]_vars

\* A duplicate was rejected in a later second than the one the record was
\* stored in, and the professional's last_review_date is still the earlier one.
C2_Witness ==
  /\ last_op.op = "save_review_extraction"
  /\ ~last_op.ret
  /\ clock = 1
  /\ ProfileRow(last_op.subject.profile_id).last_review_date = 0
  /\ ProfileRow(last_op.subject.profile_id).total_reviews = 1

\* C3: a stored extraction with no analysis row keyed to its (profile id,
\* content hash) is returned by get_unanalyzed_extractions without limit, in
\* every state, whichever run recorded it and whichever runs came after.
C3_UnanalyzedStaysInBacklog ==
  \A r \in 1..Len(rmt_profiles) : \A i \in 1..Len(rmt_profiles[r].reviews_data) :
     LET pid == rmt_profiles[r].profile_id
         review == rmt_profiles[r].reviews_data[i]
     IN  (~\E k \in 1..Len(ai_analyses) :
              /\ ai_analyses[k].profile_id = pid
              /\ ai_analyses[k].review_hash = review.review_hash)
         => \E n \in 1..Len(GetUnanalyzedExtractions(NoLimit)) :
               GetUnanalyzedExtractions(NoLimit)[n] = ExtractionData(pid, review)

\* An incremental run B reads the backlog and finds in it an extraction that
\* an earlier run A recorded, after an analysis row was stored for the professional.
C3_Witness ==
  /\ pc = "backlog"
  /\ unanalyzed # <<>>
  /\ ai_analyses # <<>>
  /\ \E r \in 1..Len(rmt_profiles) : \E i \in 1..Len(rmt_profiles[r].reviews_data) :
        /\ rmt_profiles[r].reviews_data[i].extraction_run_id # run_id
        /\ Head(unanalyzed) = ExtractionData(rmt_profiles[r].profile_id,
                                             rmt_profiles[r].reviews_data[i])

\* C4: once save_ai_analysis has saved the analysis obtained for a stored
\* extraction, get_unanalyzed_extractions no longer returns that extraction, and
\* an analysis row carries the extraction's profile id and content hash.
C4_SavedAnalysisLeavesBacklog ==
  (last_op.op = "save_ai_analysis" /\ last_op.ret) =>
     /\ \A n \in 1..Len(GetUnanalyzedExtractions(NoLimit)) :
           GetUnanalyzedExtractions(NoLimit)[n] # last_op.subject
     /\ \A i \in 1..Len(ExistingReviews(last_op.subject.profile_id)) :
           ExistingReviews(last_op.subject.profile_id)[i].extraction_id
              = last_op.subject.extraction_id
           => \E k \in 1..Len(ai_analyses) :
                 /\ ai_analyses[k].profile_id = last_op.subject.profile_id
                 /\ ai_analyses[k].review_hash
                      = ExistingReviews(last_op.subject.profile_id)[i].review_hash

\* C5: no two analysis rows have the same (profile id, review hash): no
\* sequence of full, incremental and analysis-only runs stores two analysis
\* rows for the same extraction.
C5_OneAnalysisPerExtraction ==
  \A i, j \in 1..Len(ai_analyses) :
     (/\ ai_analyses[i].profile_id = ai_analyses[j].profile_id
      /\ ai_analyses[i].review_hash = ai_analyses[j].review_hash) => i = j

\* C6: when an exception has escaped run_full_analysis or run_incremental_update
\* after the run was started, the run's row has status 'failed' and holds the
\* text of the exception, whatever that text is.
C6_EscapedExceptionFailsRun ==
  (outcome.kind = "raised" /\ outcome.run_id # NoRun) =>
     /\ RunRow(outcome.run_id).status = "failed"
     /\ RunRow(outcome.run_id).error_message = outcome.error

\* C7: every monitoring run whose status is 'failed' has a non-empty error message.
C7_FailedRunHasErrorMessage ==
  \A i \in 1..Len(monitoring_runs) :
     monitoring_runs[i].status = "failed"
        => monitoring_runs[i].error_message # None /\ monitoring_runs[i].error_message # ""

\* An exception escaped a started run and its row is 'failed'.
C7_Witness ==
  /\ outcome.kind = "raised"
  /\ outcome.run_id # NoRun
  /\ RunRow(outcome.run_id).status = "failed"

\* C8: a run's status moves only from 'running' to 'completed' or to 'failed';
\* once a run has left 'running' its row (status, end time, counters, error
\* message) never changes again.
C8_StatusMovesOnlyForward ==
  [][\A i \in 1..Len(monitoring_runs) :
       /\ monitoring_runs[i].status = "running"
            => monitoring_runs'[i].status \in {"running", "completed", "failed"}
       /\ monitoring_runs[i].status # "running"
            => monitoring_runs'[i] = monitoring_runs[i]]_vars

\* C9: at most one monitoring run has status 'running'.
C9_AtMostOneRunning ==
  Cardinality({i \in 1..Len(monitoring_runs) : monitoring_runs[i].status = "running"}) <= 1

C11_ExtractionsAppendOnly ==
  [][\A r \in 1..Len(rmt_profiles) :
       /\ r <= Len(rmt_profiles')
       /\ rmt_profiles'[r].profile_id = rmt_profiles[r].profile_id
       /\ Len(rmt_profiles[r].reviews_data) <= Len(rmt_profiles'[r].reviews_data)
       /\ SubSeq(rmt_profiles'[r].reviews_data, 1, Len(rmt_profiles[r].reviews_data))
            = rmt_profiles[r].reviews_data]_vars

\* A later run has saved again the profile of a professional whose stored
\* extraction was recorded by a run that ended 'failed'.
C11_Witness ==
  /\ pc = "extract"
  /\ \E r \in 1..Len(rmt_profiles) : \E i \in 1..Len(rmt_profiles[r].reviews_data) :
        /\ rmt_profiles[r].last_updated_run_id = run_id
        /\ rmt_profiles[r].reviews_data[i].extraction_run_id # run_id
        /\ RunRow(rmt_profiles[r].reviews_data[i].extraction_run_id).status = "failed"

\* C12: save_rmt_profile for a profile_id that has a row replaces the name,
\* status and practice locations by those of the fetch, leaves profile_id,
\* first_seen_run_id, the extraction list and total_reviews as they were, leaves
\* every other row alone and adds no row.
C12_ProfileResaveFrame ==
  [][\A rmt_data \in StoreRmtData : \A rid \in RunIdPool :
       (ProfileRows(rmt_data.profile_id) # {} /\ CallSaveRmtProfile(rmt_data, rid)) =>
          /\ Len(rmt_profiles') = Len(rmt_profiles)
          /\ \A r \in 1..Len(rmt_profiles) :
                IF rmt_profiles[r].profile_id = rmt_data.profile_id
                THEN /\ rmt_profiles'[r].first_name = rmt_data.first_name
                     /\ rmt_profiles'[r].registration_status = rmt_data.registration_status
                     /\ rmt_profiles'[r].practice_locations = rmt_data.practice_locations
                     /\ rmt_profiles'[r].profile_id = rmt_profiles[r].profile_id
                     /\ rmt_profiles'[r].first_seen_run_id = rmt_profiles[r].first_seen_run_id
                     /\ rmt_profiles'[r].reviews_data = rmt_profiles[r].reviews_data
                     /\ rmt_profiles'[r].total_reviews = rmt_profiles[r].total_reviews
                ELSE rmt_profiles'[r] = rmt_profiles[r]]_vars

\* A professional with a stored extraction was saved again under another run
\* id and with another name than the first time.
C12_Witness ==
  /\ last_op.op = "save_rmt_profile"
  /\ \E r \in 1..Len(rmt_profiles) :
        /\ rmt_profiles[r].profile_id = last_op.subject.profile_id
        /\ rmt_profiles[r].reviews_data # <<>>
        /\ rmt_profiles[r].first_seen_run_id # rmt_profiles[r].last_updated_run_id
        /\ rmt_profiles[r].first_name = "Janie"
        /\ rmt_profiles[r].reviews_data[1].extraction_run_id = rmt_profiles[r].first_seen_run_id

\* C13: for every set of analysis results of a professional (empty, with any
\* number of false-positive flags, with quality ratings absent) the composite
\* reputation score is at least 0 and at most 100, both as computed by
\* _calculate_composite_score and as stored by _generate_leaderboard_snapshot.
C13_CompositeScoreInRange ==
  returned # NoReturn =>
    /\ returned.composite_score.den > 0
    /\ QLe(Q(0, 1), returned.composite_score)
    /\ QLe(returned.composite_score, Q(100, 1))

\* A false-positive result with the lowest sentiment and ratings was scored: the
\* penalty exceeds everything earned, and the score is 0.
C13_Witness ==
  /\ returned # NoReturn
  /\ returned.op = "calculate_leaderboard_metrics"
  /\ invocation.analyses = <<WorstAnalysis>>
  /\ returned.composite_score.num = 0

\* C14: if the text contains a case-insensitive exact-substring occurrence of a
\* term, find_text_matches returns a MatchResult for that term with confidence
\* 95, and every MatchResult that only a fuzzy method produced for a different
\* term has a confidence strictly below 95.
C14_ExactOccurrenceScores95 ==
  returned # NoReturn =>
    LET text == invocation.text
        terms == invocation.search_terms
        matches == returned.matches
    IN  \A k \in 1..Len(terms) :
          Contains(Lower(terms[k]), Lower(text)) =>
            /\ \E m \in 1..Len(matches) :
                  matches[m].term = terms[k] /\ matches[m].confidence = ExactConfidence
            /\ \A m \in 1..Len(matches) :
                  (matches[m].term # terms[k] /\ ReachesFuzzy(matches[m].term, text))
                    => matches[m].confidence < ExactConfidence

\* C15: for a term that neither the exact-substring nor the word-boundary
\* method matches, a full-text partial-ratio score equal to the threshold (75
\* for names, 60 for locations) yields a MatchResult with that score, and a
\* score one point below yields no MatchResult for that term.
C15_ThresholdBoundary ==
  returned # NoReturn =>
    LET text == invocation.text
        terms == invocation.search_terms
        matches == returned.matches
        threshold == Threshold(invocation.match_type)
    IN  \A k \in 1..Len(terms) :
          ReachesFuzzy(terms[k], text) =>
            /\ invocation.fuzz[terms[k]].partial_ratio = threshold
                 => \E m \in 1..Len(matches) :
                       matches[m].term = terms[k] /\ matches[m].confidence = threshold
            /\ invocation.fuzz[terms[k]].partial_ratio = threshold - 1
                 => \A m \in 1..Len(matches) : matches[m].term # terms[k]

\* C15, amended: for such a term a partial-ratio score equal to the threshold
\* yields the full-text MatchResult with that score; a score one point below
\* yields no full-text MatchResult, and the term has a MatchResult exactly when
\* the ratio of some window of one to four words reaches the threshold, with
\* the score of such a window as its confidence.
C15_ThresholdBoundaryOfFullText ==
  returned # NoReturn =>
    LET text == invocation.text
        terms == invocation.search_terms
        matches == returned.matches
        threshold == Threshold(invocation.match_type)
    IN  \A k \in 1..Len(terms) :
          ReachesFuzzy(terms[k], text) =>
            LET fz == invocation.fuzz[terms[k]]
                of_term == {m \in 1..Len(matches) : matches[m].term = terms[k]}
                windows == {c \in AllCombos(text) : fz.ratio[c] >= threshold}
            IN  /\ fz.partial_ratio = threshold
                     => \E m \in of_term :
                           matches[m] = MatchResult(terms[k], threshold, FullTextSegment)
                /\ fz.partial_ratio = threshold - 1
                     => /\ \A m \in of_term : matches[m].segment # FullTextSegment
                        /\ (of_term # {}) <=> (windows # {})
                        /\ \A m \in of_term : \E c \in windows :
                              matches[m].confidence = fz.ratio[c]

\* A term scored one point below the threshold in the full text is returned
\* with the score of a window, and another term scored at the threshold is
\* returned with the threshold as its confidence.
C15_Witness ==
  /\ returned # NoReturn
  /\ invocation.op = "find_text_matches"
  /\ Len(invocation.search_terms) = 2
  /\ LET threshold == Threshold(invocation.match_type)
         a == invocation.search_terms[1]
         b == invocation.search_terms[2]
     IN  /\ ReachesFuzzy(a, invocation.text) /\ ReachesFuzzy(b, invocation.text)
         /\ invocation.fuzz[a].partial_ratio = threshold - 1
         /\ invocation.fuzz[b].partial_ratio = threshold
         /\ \E m \in 1..Len(returned.matches) :
               /\ returned.matches[m].term = a
               /\ returned.matches[m].confidence = WordBoundaryConfidence
         /\ \E m \in 1..Len(returned.matches) :
               returned.matches[m] = MatchResult(b, threshold, FullTextSegment)

\* C16: find_text_matches returns no MatchResult for a term only if none of the
\* four methods qualifies for it; whenever some method qualifies, exactly one
\* MatchResult is returned for the term, with the confidence of the first
\* qualifying method in the order exact substring, word boundary, full-text
\* fuzzy, sliding window.
C16_FirstQualifyingMethodDecides ==
  returned # NoReturn =>
    LET text == invocation.text
        terms == invocation.search_terms
        matches == returned.matches
        threshold == Threshold(invocation.match_type)
    IN  \A k \in 1..Len(terms) :
          LET fz == invocation.fuzz[terms[k]]
              of_term == {m \in 1..Len(matches) : matches[m].term = terms[k]}
              exact == text # <<>> /\ QualifiesExact(terms[k], text)
              bounded == text # <<>> /\ QualifiesWordBoundary(terms[k], text)
              full == ReachesFuzzy(terms[k], text) /\ fz.partial_ratio >= threshold
              windows == IF ReachesFuzzy(terms[k], text)
                         THEN {c \in AllCombos(text) : fz.ratio[c] >= threshold}
                         ELSE {}
          IN  /\ of_term = {} => ~(exact \/ bounded \/ full \/ windows # {})
              /\ (exact \/ bounded \/ full \/ windows # {}) =>
                    /\ Cardinality(of_term) = 1
                    /\ \A m \in of_term :
                         IF exact THEN matches[m].confidence = ExactConfidence
                         ELSE IF bounded THEN matches[m].confidence = WordBoundaryConfidence
                         ELSE IF full THEN matches[m].confidence = fz.partial_ratio
                         ELSE \E c \in windows : matches[m].confidence = fz.ratio[c]

\* C17: for any text and any two orderings of the same set of terms,
\* find_text_matches returns the same result: the same terms, confidences and
\* segments, in the same order.
C17_ResultIndependentOfTermOrder ==
  returned # NoReturn =>
    LET terms == invocation.search_terms
        orderings == {p \in [1..Len(terms) -> 1..Len(terms)] :
                        \A a, b \in 1..Len(terms) : a # b => p[a] # p[b]}
    IN  \A p \in orderings :
          FindTextMatches(invocation.text, [k \in 1..Len(terms) |-> terms[p[k]]],
                          invocation.match_type, invocation.fuzz) = returned.matches

\* C18: generate_name_variations returns as standalone variants every legal or
\* common first name and every legal or common last name of at least two
\* characters, whatever the other name fields hold (all first-name fields or
\* all last-name fields may be empty), and no variant shorter than two
\* characters.
C18_BareNamesAreVariants ==
  returned # NoReturn =>
    /\ \A name \in {invocation.first_name, invocation.common_first_name,
                    invocation.last_name, invocation.common_last_name} :
          Len(name) >= 2 => name \in returned.variations
    /\ \A v \in returned.variations : Len(v) >= 2

\* C19: the mode recorded for a monitoring run is the mode it was started in:
\* 'rebuild' for a run started in mode rebuild, 'full' for one started in mode
\* full, 'incremental' for one started in mode incremental when a completed
\* run exists.
C19_RecordedModeIsStartedMode ==
  pc \in {"extract", "analyze", "backlog", "snapshot"} =>
    /\ call.mode \in {"full", "rebuild"} => RunRow(run_id).run_type = call.mode
    /\ (call.mode = "incremental" /\ call.had_completed)
         => RunRow(run_id).run_type = "incremental"

\* C20: search_cmto_profiles called with get_all_pages=True, as a full run
\* calls it for every keyword, returns every professional the registry holds
\* for the keyword whatever the limit argument: it pages until the registry
\* returns a short or empty page.  (A professional whose detail request fails
\* is skipped, and a failing search request ends the search.)
C20_AllPagesFetchesEveryProfessional ==
  (/\ invocation.op = "search_cmto_profiles"
   /\ returned.done /\ ~returned.failed
   /\ invocation.get_all_pages) =>
     \A id \in 1..invocation.available :
        id # invocation.unavailable =>
          \E k \in 1..Len(returned.profiles) : returned.profiles[k] = id

\* C21: the composite score a run stores in a snapshot equals the composite of
\* the professional's analysis rows as _calculate_composite_score computes it:
\* sentiment, quality, volume and confidence, engagement, less the
\* false-positive penalty, clamped to 0..100.
C21_StoredScoreIsCompositeScore ==
  (returned # NoReturn /\ returned.op = "_generate_leaderboard_snapshot") =>
    LET stored == returned.composite_score
        composite == GroupCompositeScore(invocation.analyses)
    IN  stored.num * composite.den = composite.num * stored.den


\* C22: a step of an incremental run's backlog sweep hands the stored
\* extraction to the analyzer and the run goes on with the sweep towards
\* 'completed': the step does not end the run, and when the analyzer answers
\* for the extraction the answer becomes an analysis row.
C22_BacklogSweepAnalyzesStoredExtractions ==
  [][AnalyzeBacklog =>
       /\ pc' = "backlog"
       /\ outcome' = outcome
       /\ last_op'.op \in {"save_ai_analysis", "analyze_single_review"}
       /\ last_op'.subject = Head(unanalyzed)]_vars


\* C23: within one run the analyzer is asked at most once per extraction:
\* run_analysis submits every entry of the list get_unanalyzed_reviews returns,
\* and that list names each stored extraction at most once.
C23_UnanalyzedReviewsListedOnce ==
  LET u == GetUnanalyzedReviews(NoLimit)
  IN  \A i, j \in 1..Len(u) : u[i] = u[j] => i = j


\* C24: get_unanalyzed_extractions(limit=N) returns at most N extractions,
\* whatever the store holds (here N = 1; the backlog sweep passes 50).
C24_LimitBoundsUnanalyzedExtractions ==
  \A limit \in Limits \ {NoLimit} : Len(GetUnanalyzedExtractions(limit)) <= limit


\* C25: search_cmto_profiles terminates whatever the registry answers: every
\* iteration of its request loop either ends the search or moves on to the
\* next page, also when the response is an error status or malformed JSON.
C25_EveryRequestEndsOrAdvances ==
  [][(SearchPage \/ SearchRejected \/ SearchFault) =>
       (returned'.done \/ returned'.skip > returned.skip)]_vars


\* C26: the counters recorded when a full, rebuild or incremental run finishes
\* equal what the run persisted: reviews_extracted is the number of stored
\* extractions that name the run as their origin, and reviews_analyzed is the
\* number of analysis rows stored under the run's id (an analysis rejected
\* when saved is not counted).
C26_CountersEqualPersisted ==
  [][\A i \in 1..Len(monitoring_runs) :
       (/\ monitoring_runs[i].status = "running"
        /\ monitoring_runs'[i].status # "running"
        /\ monitoring_runs[i].run_type # "analysis_only")
       => /\ monitoring_runs'[i].reviews_extracted =
               Cardinality({<<r, k>> \in (1..Len(rmt_profiles')) \X (1..MaxRuns * MaxPending) :
                              /\ k <= Len(rmt_profiles'[r].reviews_data)
                              /\ rmt_profiles'[r].reviews_data[k].extraction_run_id
                                   = monitoring_runs[i].run_id})
          /\ monitoring_runs'[i].reviews_analyzed =
               Cardinality({k \in 1..Len(ai_analyses') :
                              ai_analyses'[k].analysis_run_id = monitoring_runs[i].run_id})]_vars


\* C27: distinct reviews get distinct deduplication keys: a review of a
\* professional that differs in text, author or time from every record stored
\* for that professional is stored by save_review_extraction, also when its
\* text or author holds the separator '|'.
C27_DistinctReviewsAreBothStored ==
  [][\A pid \in ProfileIds : \A e \in ReviewExtractions(pid) : \A rid \in RunIdPool :
       (/\ CallSaveReviewExtraction(e, rid)
        /\ ProfileRows(pid) # {}
        /\ \A k \in 1..Len(ExistingReviews(pid)) :
              <<ExistingReviews(pid)[k].review_text, ExistingReviews(pid)[k].review_author,
                ExistingReviews(pid)[k].review_timestamp>> # <<e.text, e.author_name, e.time>>)
       => /\ last_op'.ret
          /\ \E i \in 1..Len(rmt_profiles') :
                /\ rmt_profiles'[i].profile_id = pid
                /\ Len(rmt_profiles'[i].reviews_data) = Len(ExistingReviews(pid)) + 1]_vars


\* C28: save_review_extraction returns True only if, after the call, the store
\* holds a record with the extraction's content hash for its professional,
\* also when the professional has no profile row.
C28_TrueOnlyIfStored ==
  [][\A pid \in ProfileIds : \A e \in ReviewExtractions(pid) : \A rid \in RunIdPool :
       (CallSaveReviewExtraction(e, rid) /\ last_op'.ret)
       => \E i \in 1..Len(rmt_profiles') :
            /\ rmt_profiles'[i].profile_id = pid
            /\ \E k \in 1..Len(rmt_profiles'[i].reviews_data) :
                  rmt_profiles'[i].reviews_data[k].review_hash = ReviewHash(e)]_vars


\* C29: extraction ids are unique within a professional's stored list: two
\* stored extractions of one professional with different content hashes never
\* carry the same extraction_id.
C29_ExtractionIdsUniquePerProfessional ==
  \A r \in 1..Len(rmt_profiles) :
    \A i, j \in 1..Len(rmt_profiles[r].reviews_data) :
       rmt_profiles[r].reviews_data[i].review_hash # rmt_profiles[r].reviews_data[j].review_hash
       => rmt_profiles[r].reviews_data[i].extraction_id # rmt_profiles[r].reviews_data[j].extraction_id


\* C30: in every reachable state every professional row's total_reviews
\* equals the number of records in its reviews_data (0 for an absent list).
C30_TotalReviewsIsListLength ==
  \A r \in 1..Len(rmt_profiles) :
     rmt_profiles[r].total_reviews = Len(rmt_profiles[r].reviews_data)


\* A professional's row holds two records and counts two, and the last call
\* was a save_review_extraction that rejected a duplicate of one of them.
C30_Witness ==
  /\ last_op.op = "save_review_extraction"
  /\ ~last_op.ret
  /\ \E r \in 1..Len(rmt_profiles) :
        /\ rmt_profiles[r].profile_id = last_op.subject.profile_id
        /\ Len(rmt_profiles[r].reviews_data) = 2
        /\ rmt_profiles[r].total_reviews = 2

====
